---- MODULE Spec2Model ----
(***************************************************************************)
(* AIRouter: the energy ledger (src/AIRouter/src/energy/index.js) and the  *)
(* task scheduler (TaskScheduler, src/AIRouter/src/scheduler/README.md).   *)
(*                                                                         *)
(* Every `await` of the code is a step boundary: a handler is a chain of   *)
(* atomic database operations (findOne, save, insert) that other handlers  *)
(* may interleave with.  A Mongoose document is a local copy of the stored *)
(* record; save() of an existing document writes the paths the handler     *)
(* assigned ($set), save() of a new document inserts it.                   *)
(***************************************************************************)
EXTENDS Integers, Sequences, FiniteSets, TLC

(***************************************************************************)
(* Bounds of the model                                                     *)
(***************************************************************************)
MaxCalls == 2
MaxTasks == 2
MaxClock == 3
MaxOverlapClock == 2

(***************************************************************************)
(* Program constants                                                       *)
(***************************************************************************)
StakeBonusRate == 10
StakingRewardPct == 1
BaseCost == 10
BaseReward == 5
DefaultEnergyCost == 15
OneDay == 1440
RetentionDays == 30

Accounts == {"a1", "a2"}
Callers == {"c1", "c2"}
TickSeq == <<"t1", "t2">>
Ticks == {TickSeq[i] : i \in 1..Len(TickSeq)}
Rewarder == "rew"
Procs == Callers \cup Ticks \cup {Rewarder}

NoSource == "undefined"
SourceEnum == {"staking_reward", "stake_bonus", "purchase", "trade", "mint",
               "social", "monitor", "schedule", "airdrop", "referral",
               "task_reward", "marketplace"}

(* inputs of the external callers *)
Owner == "a1"
AddAmounts == {0 - BaseReward, 0, BaseCost}
DeductAmounts == {BaseCost}
StakeAmounts == {50, 100}
UnstakeAmounts == {50, 150}
Holdings == {0, 100}
DeductSources == {"trade", NoSource}

VARIABLES
  energy,    \* Energy collection: account -> [exists, balance, staked]
  txlog,     \* EnergyTransaction collection, in insertion order
  led,       \* per caller: the ledger call in flight (its local document)
  rew,       \* processStakingRewards: position and loaded records
  calls,     \* number of ledger calls started by external callers
  rewRuns,   \* number of daily setInterval firings (one within the minutes modelled)
  tasks,     \* Task collection: id -> record (exists = FALSE: no such document)
  tick,      \* per cron firing in flight: position in processScheduledTasks
  clock,     \* wall clock, in minutes
  lastTick,  \* the minute of the latest '* * * * *' firing
  execCalls, \* history: per task, the AgentEngine.processInput calls made by ticks
  nextId,    \* the id the next created task gets
  reply      \* what the latest query-style call returned (getBalance, cleanup)

(* no query-style call has returned yet *)
NoReply == [op |-> "none", arg |-> "none", value |-> 0]

ledgerVars == <<energy, txlog, led, rew, calls, rewRuns>>
schedVars == <<tasks, tick, clock, lastTick, execCalls, nextId, reply>>
vars == <<energy, txlog, led, rew, calls, rewRuns,
          tasks, tick, clock, lastTick, execCalls, nextId, reply>>

(***************************************************************************)
(* Energy and EnergyTransaction schemas                                    *)
(***************************************************************************)
NoRecord == [exists |-> FALSE, balance |-> 0, staked |-> 0]

NoDoc == [balance |-> 0, staked |-> 0, isNew |-> FALSE]

(* new EnergyModel({walletAddress, balance: 0, staked: 0}) *)
NewEnergyDoc == [balance |-> 0, staked |-> 0, isNew |-> TRUE]

(* EnergyModel.findOne({walletAddress}): the document, or null (found = FALSE) *)
FindOne(a) ==
  IF energy[a].exists
    THEN [found |-> TRUE,
          doc |-> [balance |-> energy[a].balance, staked |-> energy[a].staked,
                   isNew |-> FALSE]]
    ELSE [found |-> FALSE, doc |-> NoDoc]

(* schema validators of Energy: balance min 0, staked min 0 *)
EnergyValid(doc) == doc.balance >= 0 /\ doc.staked >= 0

(* schema validators of EnergyTransaction: amount min 0, source required and in enum *)
TxValid(tx) == tx.amount >= 0 /\ tx.source \in SourceEnum

(* a faulty save: the caller's change applied as an increment of the stored
   value *)
SaveEnergyInc(stored, loaded, doc, paths) ==
  [exists |-> TRUE,
   balance |-> IF "balance" \in paths
                 THEN stored.balance + (doc.balance - loaded.balance)
                 ELSE stored.balance,
   staked |-> IF "staked" \in paths
                THEN stored.staked + (doc.staked - loaded.staked)
                ELSE stored.staked]
(* a faulty save: the whole document is written back, not the modified
   paths *)
SaveEnergyWhole(stored, loaded, doc, paths) ==
  [exists |-> TRUE, balance |-> doc.balance, staked |-> doc.staked]
(* energyRecord.save() of an existing document: $set of the assigned paths *)
SaveEnergy(stored, loaded, doc, paths) ==
  [exists |-> TRUE,
   balance |-> IF "balance" \in paths THEN doc.balance ELSE stored.balance,
   staked |-> IF "staked" \in paths THEN doc.staked ELSE stored.staked]

Tx(a, type, amount, source, balanceAfter) ==
  [walletAddress |-> a, type |-> type, amount |-> amount, source |-> source,
   balanceAfter |-> balanceAfter]

(***************************************************************************)
(* A ledger call in flight                                                 *)
(***************************************************************************)
IdleFrame ==
  [op |-> "none", pc |-> "idle", acct |-> "none", amount |-> 0,
   source |-> "none", loaded |-> NoDoc, doc |-> NoDoc, paths |-> {}, holding |-> 0]

StartFrame(op, a, amt, src) ==
  [op |-> op, pc |-> "find", acct |-> a, amount |-> amt, source |-> src,
   loaded |-> NoDoc, doc |-> NoDoc, paths |-> {}, holding |-> 0]

Finished(f) == f.pc \in {"idle", "ok", "err"}

(* the call returned ("ok") or threw ("err"); its local document is gone *)
Return(f, result) == [IdleFrame EXCEPT !.pc = result, !.op = f.op, !.acct = f.acct]

(* Math.floor(record.staked * config.energy.stakingReward), stakingReward = 0.01 *)
RewardAmount(staked) == (staked * StakingRewardPct) \div 100

(***************************************************************************)
(* Steps of a ledger call of process p (a route handler, a scheduler tick  *)
(* or processStakingRewards)                                               *)
(***************************************************************************)

(* addEnergy, lines 61-72: findOne, create when absent, balance += amount *)
AddFind(f) ==
  LET r == FindOne(f.acct)
      base == IF r.found THEN r.doc ELSE NewEnergyDoc
  IN [f EXCEPT !.pc = "save", !.loaded = base,
               !.doc = [base EXCEPT !.balance = @ + f.amount],
               !.paths = {"balance"}]

(* a faulty deductEnergy: no check of the record and the balance *)
DeductFindNoCheck(f) ==
  LET r == FindOne(f.acct)
  IN [f EXCEPT !.pc = "save", !.loaded = r.doc,
               !.doc = [r.doc EXCEPT !.balance = @ - f.amount],
               !.paths = {"balance"}]
(* deductEnergy, lines 103-110: findOne, sufficiency check, balance -= amount *)
DeductFind(f) ==
  LET r == FindOne(f.acct)
  IN IF ~r.found \/ r.doc.balance < f.amount
       THEN Return(f, "err")
       ELSE [f EXCEPT !.pc = "save", !.loaded = r.doc,
                      !.doc = [r.doc EXCEPT !.balance = @ - f.amount],
                      !.paths = {"balance"}]

(* a faulty stakeTokens: the stake is recorded without the energy bonus *)
StakeFindNoBonus(f) ==
  LET r == FindOne(f.acct)
      base == IF r.found THEN r.doc ELSE NewEnergyDoc
  IN [f EXCEPT !.pc = "save", !.loaded = base,
               !.doc = [base EXCEPT !.staked = @ + f.amount],
               !.paths = {"staked", "balance"}]
(* stakeTokens, lines 150-164: findOne, create when absent, staked += amount,
   balance += amount * 10 *)
StakeFind(f) ==
  LET r == FindOne(f.acct)
      base == IF r.found THEN r.doc ELSE NewEnergyDoc
  IN [f EXCEPT !.pc = "save", !.loaded = base,
               !.doc = [base EXCEPT !.staked = @ + f.amount,
                                    !.balance = @ + f.amount * StakeBonusRate],
               !.paths = {"staked", "balance"}]

(* a faulty unstakeTokens: no check of the record and the stake *)
UnstakeFindNoCheck(f) ==
  LET r == FindOne(f.acct)
  IN [f EXCEPT !.pc = "save", !.loaded = r.doc,
               !.doc = [r.doc EXCEPT !.staked = @ - f.amount],
               !.paths = {"staked"}]
(* unstakeTokens, lines 195-205: findOne, stake check, staked -= amount *)
UnstakeFind(f) ==
  LET r == FindOne(f.acct)
  IN IF ~r.found \/ r.doc.staked < f.amount
       THEN Return(f, "err")
       ELSE [f EXCEPT !.pc = "save", !.loaded = r.doc,
                      !.doc = [r.doc EXCEPT !.staked = @ - f.amount],
                      !.paths = {"staked"}]

LedFind(p) ==
  /\ led[p].pc = "find"
  /\ led' = [led EXCEPT ![p] =
               CASE led[p].op = "add" -> AddFind(led[p])
                 [] led[p].op = "deduct" -> DeductFind(led[p])
                 [] led[p].op = "stake" -> StakeFind(led[p])
                 [] OTHER -> UnstakeFind(led[p])]
  /\ UNCHANGED <<energy, txlog, rew, calls, rewRuns, schedVars>>

(* await energyRecord.save(): validation, then insert (unique walletAddress)
   or update; unstakeTokens returns after it, the others go on to the
   transaction *)
LedSave(p) ==
  LET f == led[p]
      a == f.acct
  IN /\ f.pc = "save"
     /\ IF ~EnergyValid(f.doc) \/ (f.doc.isNew /\ energy[a].exists)
          THEN /\ led' = [led EXCEPT ![p] = Return(f, "err")]
               /\ UNCHANGED energy
          ELSE /\ energy' = [energy EXCEPT ![a] =
                               IF f.doc.isNew
                                 THEN [exists |-> TRUE, balance |-> f.doc.balance,
                                       staked |-> f.doc.staked]
                                 ELSE SaveEnergy(energy[a], f.loaded, f.doc, f.paths)]
               /\ led' = [led EXCEPT ![p] =
                            IF f.op = "unstake" THEN Return(f, "ok")
                            ELSE [f EXCEPT !.pc = "tx"]]
     /\ UNCHANGED <<txlog, rew, calls, rewRuns, schedVars>>

(* the transaction each operation records after its balance write *)
TxOf(f) ==
  CASE f.op = "add" -> Tx(f.acct, "credit", f.amount, f.source, f.doc.balance)
    [] f.op = "deduct" -> Tx(f.acct, "debit", f.amount, f.source, f.doc.balance)
    [] OTHER -> Tx(f.acct, "credit", f.amount * StakeBonusRate, "stake_bonus",
                   f.doc.balance)

(* await new TransactionModel({...}).save() *)
LedTx(p) ==
  /\ led[p].pc = "tx"
  /\ IF TxValid(TxOf(led[p]))
       THEN /\ txlog' = Append(txlog, TxOf(led[p]))
            /\ led' = [led EXCEPT ![p] = Return(led[p], "ok")]
       ELSE /\ led' = [led EXCEPT ![p] = Return(led[p], "err")]
            /\ UNCHANGED txlog
  /\ UNCHANGED <<energy, rew, calls, rewRuns, schedVars>>

(* the store rejects the awaited findOne or save() of the call (connection
   lost, write error): the call throws where it is, what it has written so
   far stays written *)
LedFail(p) ==
  /\ led[p].pc \in {"find", "save", "tx"}
  /\ led' = [led EXCEPT ![p] = Return(led[p], "err")]
  /\ UNCHANGED <<energy, txlog, rew, calls, rewRuns, schedVars>>

(***************************************************************************)
(* External callers: route handlers and middleware calling the ledger      *)
(***************************************************************************)
CallAdd(c, a, amt) ==
  /\ Finished(led[c]) /\ calls < MaxCalls
  /\ led' = [led EXCEPT ![c] = StartFrame("add", a, amt, "purchase")]
  /\ calls' = calls + 1
  /\ UNCHANGED <<energy, txlog, rew, rewRuns, schedVars>>

CallDeduct(c, a, amt, src) ==
  /\ Finished(led[c]) /\ calls < MaxCalls
  /\ led' = [led EXCEPT ![c] = StartFrame("deduct", a, amt, src)]
  /\ calls' = calls + 1
  /\ UNCHANGED <<energy, txlog, rew, rewRuns, schedVars>>

(* a faulty token check: every holding passes *)
HoldingAlwaysSufficient(holding, amt) == TRUE
(* stakeTokens, lines 140-144: balance < amount throws 'Insufficient token
   balance' *)
HoldingSufficient(holding, amt) == holding >= amt

(* stakeTokens, lines 140-147: getTokenBalance reports the holding, the
   check, then the (mock) staking contract call; the frame keeps the
   reported holding *)
CallStake(c, a, amt, holding) ==
  /\ Finished(led[c]) /\ calls < MaxCalls
  /\ led' = [led EXCEPT ![c] =
               IF HoldingSufficient(holding, amt)
                 THEN [StartFrame("stake", a, amt, "stake_bonus") EXCEPT !.holding = holding]
                 ELSE [Return(StartFrame("stake", a, amt, "stake_bonus"), "err")
                         EXCEPT !.holding = holding, !.amount = amt]]
  /\ calls' = calls + 1
  /\ UNCHANGED <<energy, txlog, rew, rewRuns, schedVars>>

CallUnstake(c, a, amt) ==
  /\ Finished(led[c]) /\ calls < MaxCalls
  /\ led' = [led EXCEPT ![c] = StartFrame("unstake", a, amt, "none")]
  /\ calls' = calls + 1
  /\ UNCHANGED <<energy, txlog, rew, rewRuns, schedVars>>

(***************************************************************************)
(* processStakingRewards, lines 250-272                                    *)
(***************************************************************************)
AccountSeq == <<"a1", "a2">>

(* EnergyModel.find({staked: {$gt: 0}}) *)
StakingRecords ==
  LET found == SelectSeq(AccountSeq, LAMBDA a : energy[a].exists /\ energy[a].staked > 0)
  IN [i \in 1..Len(found) |-> [walletAddress |-> found[i], staked |-> energy[found[i]].staked]]

(* a faulty loop: every record found is credited *)
RewardedAll(records) == records

(* the records of the loop that get a reward: rewardAmount > 0 *)
Rewarded(records) == SelectSeq(records, LAMBDA r : RewardAmount(r.staked) > 0)

RewardFrame(r) ==
  StartFrame("add", r.walletAddress, RewardAmount(r.staked), "staking_reward")

RewStart ==
  /\ rew.pc = "idle" /\ rewRuns = 0
  /\ rewRuns' = rewRuns + 1
  /\ LET q == Rewarded(StakingRecords)
     IN IF q = <<>>
          THEN /\ rew' = [pc |-> "idle", queue |-> <<>>, records |-> StakingRecords]
               /\ UNCHANGED led
          ELSE /\ rew' = [pc |-> "run", queue |-> q, records |-> StakingRecords]
               /\ led' = [led EXCEPT ![Rewarder] = RewardFrame(Head(q))]
  /\ UNCHANGED <<energy, txlog, calls, schedVars>>

(* the loop after `await EnergySystem.addEnergy(...)`: next record, or the
   rethrown error ends the invocation *)
RewNext ==
  /\ rew.pc = "run" /\ led[Rewarder].pc \in {"ok", "err"}
  /\ LET rest == Tail(rew.queue)
     IN IF led[Rewarder].pc = "err" \/ rest = <<>>
          THEN /\ rew' = [rew EXCEPT !.pc = "idle", !.queue = <<>>]
               /\ led' = [led EXCEPT ![Rewarder] = IdleFrame]
          ELSE /\ rew' = [rew EXCEPT !.queue = rest]
               /\ led' = [led EXCEPT ![Rewarder] = RewardFrame(Head(rest))]
  /\ UNCHANGED <<energy, txlog, calls, rewRuns, schedVars>>

(***************************************************************************)
(* Task schema (scheduler/models/task.js) and TaskScheduler                *)
(***************************************************************************)
NoSchedule == "none"
EveryMinute == "* * * * *"
EveryOther == "*/2 * * * *"
NoTime == 0 - 1
NoCost == 0

TaskIds == 1..MaxTasks

NoTask ==
  [exists |-> FALSE, owner |-> "none", schedule |-> NoSchedule,
   nextExecutionTime |-> 0, lastExecutionTime |-> NoTime,
   lastExecutionStatus |-> "pending", lastExecutionResult |-> "none",
   executionCount |-> 0, energyCost |-> 0, isActive |-> FALSE]

(* the cron library call of calculateNextExecutionTime either yields the
   schedule's next firing after the wall clock or throws *)
CronOutcomes(schedule) ==
  IF schedule \in {EveryMinute, EveryOther} THEN {"nextDate", "throw"} ELSE {"throw"}

(* interval.nextDate(): the schedule's next firing after the wall clock *)
NextDate(schedule) ==
  IF schedule = EveryOther THEN clock + 2 - (clock % 2) ELSE clock + 1

(* a faulty fallback: the failed computation returns from itself *)
calculateWithoutFallback(schedule, from, lib) ==
  IF lib = "throw" THEN from ELSE NextDate(schedule)
(* calculateNextExecutionTime(schedule, from): the library's next date, or
   from + 1 day when the try block throws *)
calculateNextExecutionTime(schedule, from, lib) ==
  IF lib = "throw" THEN from + OneDay ELSE NextDate(schedule)

(* a faulty getBalance: the staked amount is returned *)
getStaked(a) == IF energy[a].exists THEN energy[a].staked ELSE 0
(* EnergySystem.getBalance: the stored balance, 0 when there is no record *)
getBalance(a) == IF energy[a].exists THEN energy[a].balance ELSE 0

(* createTask: nextExecutionTime from schedule, executionTime or now;
   energyCost || 15; isActive true *)
NewTask(owner, schedule, executionTime, cost, lib) ==
  [exists |-> TRUE, owner |-> owner, schedule |-> schedule,
   nextExecutionTime |->
     IF schedule # NoSchedule THEN calculateNextExecutionTime(schedule, clock, lib)
     ELSE IF executionTime # NoTime THEN executionTime
     ELSE clock,
   lastExecutionTime |-> NoTime, lastExecutionStatus |-> "pending",
   lastExecutionResult |-> "none", executionCount |-> 0,
   energyCost |-> IF cost = NoCost THEN DefaultEnergyCost ELSE cost,
   isActive |-> TRUE]

createTask(owner, schedule, executionTime, cost, lib) ==
  /\ nextId \in TaskIds
  /\ lib \in CronOutcomes(schedule)
  /\ tasks' = [tasks EXCEPT ![nextId] = NewTask(owner, schedule, executionTime, cost, lib)]
  /\ nextId' = nextId + 1

(* the schedule pattern of validateTaskCreate: five cron fields *)
BadSchedule == "daily"
SchedulePattern(schedule) == schedule = EveryMinute

(* which of schedule and executionTime a request body carries *)
BodyKind(body) ==
  IF body.schedule # NoSchedule
    THEN (IF body.executionTime # NoTime THEN "both" ELSE "schedule")
    ELSE (IF body.executionTime # NoTime THEN "executionTime" ELSE "neither")

(* a faulty validator: the xor of schedule and executionTime is missing *)
validateTaskCreateNoXor(body) ==
  /\ body.schedule # NoSchedule => SchedulePattern(body.schedule)
  /\ body.executionTime # NoTime => body.executionTime >= clock
  /\ body.cost # NoCost => body.cost \in 1..100
(* validateTaskCreate: the Joi schema; schedule matches the pattern,
   executionTime is not before now, energyCost is an integer in 1..100, and
   .xor('schedule', 'executionTime') *)
validateTaskCreate(body) ==
  /\ body.schedule # NoSchedule => SchedulePattern(body.schedule)
  /\ body.executionTime # NoTime => body.executionTime >= clock
  /\ body.cost # NoCost => body.cost \in 1..100
  /\ BodyKind(body) \in {"schedule", "executionTime"}

Rejected(body, status) == [op |-> "rejected", arg |-> BodyKind(body), value |-> status]

(* router.post('/'): validateTaskCreate (400), checkEnergy against the base
   cost (402), createTask, then deductEnergy(owner, req.energyCost,
   'schedule'), whose steps follow as the caller's ledger call *)
PostTask(c, body, lib) ==
  /\ Finished(led[c]) /\ calls < MaxCalls /\ nextId \in TaskIds
  /\ IF ~validateTaskCreate(body)
       THEN /\ reply' = Rejected(body, 400)
            /\ UNCHANGED <<ledgerVars, tasks, nextId>>
       ELSE IF getBalance(Owner) < BaseCost
         THEN /\ reply' = Rejected(body, 402)
              /\ UNCHANGED <<ledgerVars, tasks, nextId>>
         ELSE /\ createTask(Owner, body.schedule, body.executionTime, body.cost, lib)
              /\ reply' = [op |-> "createTask", arg |-> BodyKind(body), value |-> nextId]
              /\ led' = [led EXCEPT ![c] = StartFrame("deduct", Owner, BaseCost, "schedule")]
              /\ calls' = calls + 1
              /\ UNCHANGED <<energy, txlog, rew, rewRuns>>
  /\ UNCHANGED <<tick, clock, lastTick, execCalls>>

(* TaskModel.find({nextExecutionTime: {$lte: now}, isActive: true}) *)
IsDue(rec, now) == rec.exists /\ rec.isActive /\ rec.nextExecutionTime <= now

DueTasks(now) ==
  LET ids == SelectSeq([i \in TaskIds |-> i], LAMBDA i : IsDue(tasks[i], now))
  IN [k \in 1..Len(ids) |-> [id |-> ids[k], rec |-> tasks[ids[k]]]]

NoCur == [id |-> 0, rec |-> NoTask]

IdleTick ==
  [pc |-> "idle", now |-> 0, queue |-> <<>>, cur |-> NoCur, outcome |-> "none"]

StatusPaths == {"lastExecutionTime", "lastExecutionStatus", "lastExecutionResult"}

(* a faulty reschedule: every task is deactivated after an attempt *)
RescheduleDeactivating(upd, now, lib) ==
  [doc |-> [upd.doc EXCEPT
              !.nextExecutionTime = calculateNextExecutionTime(upd.doc.schedule, now, lib),
              !.isActive = FALSE],
   paths |-> upd.paths \cup {"nextExecutionTime", "isActive"}]
(* a faulty reschedule: a one-time task is left active *)
RescheduleOnly(upd, now, lib) ==
  IF upd.doc.schedule # NoSchedule
    THEN [doc |-> [upd.doc EXCEPT
                     !.nextExecutionTime =
                       calculateNextExecutionTime(upd.doc.schedule, now, lib)],
          paths |-> upd.paths \cup {"nextExecutionTime"}]
    ELSE upd
(* lines 138-143, 165-170, 183-188: reschedule a recurring task, deactivate a
   one-time task; upd is the document with the paths assigned so far *)
Reschedule(upd, now, lib) ==
  IF upd.doc.schedule # NoSchedule
    THEN [doc |-> [upd.doc EXCEPT
                     !.nextExecutionTime =
                       calculateNextExecutionTime(upd.doc.schedule, now, lib)],
          paths |-> upd.paths \cup {"nextExecutionTime"}]
    ELSE [doc |-> [upd.doc EXCEPT !.isActive = FALSE],
          paths |-> upd.paths \cup {"isActive"}]

(* a faulty admission check: only an empty balance is refused *)
InsufficientWhenEmpty(balance, cost) == balance <= 0
(* line 129: balance < task.energyCost *)
InsufficientEnergy(balance, cost) == balance < cost

(* lines 133-143: insufficient energy *)
DeniedUpdate(rec, now, lib) ==
  Reschedule([doc |-> [rec EXCEPT !.lastExecutionTime = now,
                                  !.lastExecutionStatus = "failed",
                                  !.lastExecutionResult = "Insufficient energy"],
              paths |-> StatusPaths], now, lib)

(* lines 159-170: after processInput and deductEnergy returned *)
SuccessUpdate(rec, now, lib) ==
  Reschedule([doc |-> [rec EXCEPT !.lastExecutionTime = now,
                                  !.lastExecutionStatus = "success",
                                  !.lastExecutionResult = "result",
                                  !.executionCount = @ + 1],
              paths |-> StatusPaths \cup {"executionCount"}], now, lib)

(* a faulty catch block: the failed attempt is counted *)
CatchUpdateCounting(rec, now, msg, lib) ==
  Reschedule([doc |-> [rec EXCEPT !.lastExecutionTime = now,
                                  !.lastExecutionStatus = "failed",
                                  !.lastExecutionResult = msg,
                                  !.executionCount = @ + 1],
              paths |-> StatusPaths \cup {"executionCount"}], now, lib)
(* lines 174-188: the catch block, error.message as result *)
CatchUpdate(rec, now, msg, lib) ==
  Reschedule([doc |-> [rec EXCEPT !.lastExecutionTime = now,
                                  !.lastExecutionStatus = "failed",
                                  !.lastExecutionResult = msg],
              paths |-> StatusPaths], now, lib)

(* task.save(): $set of the assigned paths *)
SaveTask(stored, doc, paths) ==
  [f \in DOMAIN stored |-> IF f \in paths THEN doc[f] ELSE stored[f]]

(* the outcome of the attempt on the current task, known when it is saved *)
Outcome(t) ==
  IF tick[t].pc = "deduct"
    THEN (IF led[t].pc = "ok" THEN "success" ELSE "deductfail")
    ELSE tick[t].outcome

(* the update of the task the outcome leads to; the message of a throwing
   deductEnergy is 'Insufficient energy balance' (energy/index.js line 106) *)
Update(rec, outcome, now, lib) ==
  CASE outcome = "denied" -> DeniedUpdate(rec, now, lib)
    [] outcome = "success" -> SuccessUpdate(rec, now, lib)
    [] outcome = "execfail" -> CatchUpdate(rec, now, "executor error", lib)
    [] OTHER -> CatchUpdate(rec, now, "Insufficient energy balance", lib)

(* the for loop moves to the next loaded task, or the tick ends *)
Advance(tk) ==
  IF tk.queue = <<>>
    THEN IdleTick
    ELSE [tk EXCEPT !.pc = "balance", !.cur = Head(tk.queue), !.queue = Tail(tk.queue),
                    !.outcome = "none"]

(* cron.schedule('* * * * *', ...): lines 114-122, the query of the due tasks;
   a firing does not wait for the previous one to finish (the firing takes
   the first free slot of TickSeq) *)
TickStart(t) ==
  /\ tick[t].pc = "idle" /\ clock > lastTick
  /\ \E i \in 1..Len(TickSeq) :
       TickSeq[i] = t /\ \A j \in 1..(i - 1) : tick[TickSeq[j]].pc # "idle"
  /\ lastTick' = clock
  /\ LET q == DueTasks(clock)
     IN tick' = [tick EXCEPT ![t] =
                  IF q = <<>> THEN IdleTick
                  ELSE [IdleTick EXCEPT !.pc = "balance", !.now = clock,
                                        !.cur = Head(q), !.queue = Tail(q)]]
  /\ UNCHANGED <<ledgerVars, tasks, clock, execCalls, nextId, reply>>

(* a caller (the balance route, checkEnergy) awaits getBalance(a) *)
CallGetBalance(a) ==
  /\ reply' = [op |-> "getBalance", arg |-> a, value |-> getBalance(a)]
  /\ UNCHANGED <<ledgerVars, tasks, tick, clock, lastTick, execCalls, nextId>>

(* lines 128-129: the admission check *)
TickBalance(t) ==
  /\ tick[t].pc = "balance"
  /\ tick' = [tick EXCEPT ![t] =
               IF InsufficientEnergy(getBalance(tick[t].cur.rec.owner),
                                     tick[t].cur.rec.energyCost)
                 THEN [@ EXCEPT !.pc = "save", !.outcome = "denied"]
                 ELSE [@ EXCEPT !.pc = "exec"]]
  /\ UNCHANGED <<ledgerVars, tasks, clock, lastTick, execCalls, nextId, reply>>

(* lines 150-156: AgentEngine.processInput returns or throws; on return the
   tick calls deductEnergy(task.owner, task.energyCost, 'schedule') *)
TickExec(t, ok) ==
  /\ tick[t].pc = "exec"
  /\ execCalls' = [execCalls EXCEPT ![tick[t].cur.id] = @ + 1]
  /\ IF ok
       THEN /\ tick' = [tick EXCEPT ![t].pc = "deduct"]
            /\ led' = [led EXCEPT ![t] =
                         StartFrame("deduct", tick[t].cur.rec.owner,
                                    tick[t].cur.rec.energyCost, "schedule")]
       ELSE /\ tick' = [tick EXCEPT ![t].pc = "save", ![t].outcome = "execfail"]
            /\ UNCHANGED led
  /\ UNCHANGED <<energy, txlog, rew, calls, rewRuns, tasks, clock, lastTick, nextId, reply>>

(* line 150: the promise of AgentEngine.processInput never settles; the
   await has no timeout, so this firing stays where it is *)
TickHang(t) ==
  /\ tick[t].pc = "exec"
  /\ execCalls' = [execCalls EXCEPT ![tick[t].cur.id] = @ + 1]
  /\ tick' = [tick EXCEPT ![t].pc = "hung"]
  /\ UNCHANGED <<ledgerVars, tasks, clock, lastTick, nextId, reply>>

(* lines 145, 172, 190: the status update, the reschedule and task.save();
   save() of a document that is no longer stored throws, in the catch block
   too, which ends the loop (line 193) *)
TickSave(t, lib) ==
  LET tk == tick[t]
      id == tk.cur.id
      out == Outcome(t)
      upd == Update(tk.cur.rec, out, tk.now, lib)
  IN /\ tk.pc = "save" \/ (tk.pc = "deduct" /\ led[t].pc \in {"ok", "err"})
     /\ lib \in CronOutcomes(tk.cur.rec.schedule)
     /\ IF tasks[id].exists
          THEN /\ tasks' = [tasks EXCEPT ![id] =
                              SaveTask(tasks[id], upd.doc, upd.paths)]
               /\ tick' = [tick EXCEPT ![t] = Advance(tk)]
          ELSE /\ tick' = [tick EXCEPT ![t] = IdleTick]
               /\ UNCHANGED tasks
     /\ led' = [led EXCEPT ![t] = IdleFrame]
     /\ UNCHANGED <<energy, txlog, rew, calls, rewRuns, clock, lastTick, execCalls, nextId,
                    reply>>

(* deleteTask, lines 286-297: TaskModel.findByIdAndDelete(taskId) *)
deleteTask(id) ==
  /\ tasks[id].exists
  /\ tasks' = [tasks EXCEPT ![id] = NoTask]
  /\ UNCHANGED <<ledgerVars, tick, clock, lastTick, execCalls, nextId, reply>>

(* TaskScheduler.getTaskById, as the routes use it: the stored task, nothing
   (NoTask) when the id is unknown *)
getTaskById(id) == tasks[id]

(* TaskScheduler.runTaskImmediately: the task enters the loop body (admission,
   executor, debit, status, reschedule, save) whatever its nextExecutionTime
   and isActive are; t is the frame the steps run in *)
runTaskImmediately(t, id) ==
  tick' = [tick EXCEPT ![t] =
             [IdleTick EXCEPT !.pc = "balance", !.now = clock,
                              !.cur = [id |-> id, rec |-> getTaskById(id)]]]

(* router.post('/:taskId/run') up to the await of runTaskImmediately:
   checkEnergy against the base cost (402), getTaskById (404) *)
RunTask(t, id) ==
  /\ tick[t].pc = "idle" /\ Finished(led[t]) /\ calls < MaxCalls
  /\ IF getBalance(Owner) < BaseCost
       THEN /\ reply' = [op |-> "rejected", arg |-> "run", value |-> 402]
            /\ UNCHANGED <<tick, calls>>
       ELSE IF ~getTaskById(id).exists
         THEN /\ reply' = [op |-> "rejected", arg |-> "run", value |-> 404]
              /\ UNCHANGED <<tick, calls>>
         ELSE /\ runTaskImmediately(t, id)
              /\ calls' = calls + 1
              /\ UNCHANGED reply
  /\ UNCHANGED <<energy, txlog, led, rew, rewRuns, tasks, clock, lastTick, execCalls, nextId>>

(* the save that ends runTaskImmediately, and the route going on: after a run
   that returned, energyMiddleware.deductEnergy(owner, req.energyCost,
   'schedule') (lines 619-620); a run that threw skips it *)
RunSave(t, lib) ==
  LET tk == tick[t]
      id == tk.cur.id
      out == Outcome(t)
      upd == Update(tk.cur.rec, out, tk.now, lib)
  IN /\ tk.pc = "save" \/ (tk.pc = "deduct" /\ led[t].pc \in {"ok", "err"})
     /\ lib \in CronOutcomes(tk.cur.rec.schedule)
     /\ tick' = [tick EXCEPT ![t] = IdleTick]
     /\ IF tasks[id].exists
          THEN /\ tasks' = [tasks EXCEPT ![id] = SaveTask(tasks[id], upd.doc, upd.paths)]
               /\ led' = [led EXCEPT ![t] =
                            IF out = "success"
                              THEN StartFrame("deduct", tk.cur.rec.owner, BaseCost, "schedule")
                              ELSE IdleFrame]
          ELSE /\ led' = [led EXCEPT ![t] = IdleFrame]
               /\ UNCHANGED tasks
     /\ UNCHANGED <<energy, txlog, rew, calls, rewRuns, clock, lastTick, execCalls, nextId,
                    reply>>

(* the fields of updateData that updateTask looks at; isActive is compared
   with undefined *)
Undefined == "undefined"
NoUpdate == [schedule |-> NoSchedule, isActive |-> Undefined, cost |-> NoCost]

(* updateTask, lines 262-271: the assignments and the paths they modify *)
UpdatedTask(rec, upd, lib) ==
  [doc |-> [rec EXCEPT
              !.schedule = IF upd.schedule # NoSchedule THEN upd.schedule ELSE @,
              !.nextExecutionTime =
                IF upd.schedule # NoSchedule
                  THEN calculateNextExecutionTime(upd.schedule, clock, lib) ELSE @,
              !.isActive = IF upd.isActive # Undefined THEN upd.isActive = "true" ELSE @,
              !.energyCost = IF upd.cost # NoCost THEN upd.cost ELSE @],
   paths |-> (IF upd.schedule # NoSchedule THEN {"schedule", "nextExecutionTime"} ELSE {})
             \cup (IF upd.isActive # Undefined THEN {"isActive"} ELSE {})
             \cup (IF upd.cost # NoCost THEN {"energyCost"} ELSE {})]

(* updateTask: findById, 'Task not found' when absent, the assignments,
   save(), the updated task returned; what is written does not depend on the
   document read, so find and save are one step *)
updateTask(id, upd, lib) ==
  /\ lib \in CronOutcomes(upd.schedule)
  /\ IF ~tasks[id].exists
       THEN /\ reply' = [op |-> "error", arg |-> "Task not found", value |-> 0, id |-> id]
            /\ UNCHANGED tasks
       ELSE LET u == UpdatedTask(tasks[id], upd, lib)
            IN /\ tasks' = [tasks EXCEPT ![id] = SaveTask(tasks[id], u.doc, u.paths)]
               /\ reply' = [op |-> "updateTask", arg |-> upd.schedule,
                            value |-> u.doc.nextExecutionTime, id |-> id]
  /\ UNCHANGED <<ledgerVars, tick, clock, lastTick, execCalls, nextId>>

(* a faulty sweep filter: the schedule is not looked at *)
SweptAnySchedule(rec, now) ==
  /\ rec.exists /\ ~rec.isActive
  /\ rec.lastExecutionTime # NoTime
  /\ rec.lastExecutionTime < now - RetentionDays * OneDay
(* lines 323-330: the deleteMany filter {isActive: false, schedule: null,
   lastExecutionTime: {$lt: now - 30 days}}; a missing lastExecutionTime does
   not match $lt *)
Swept(rec, now) ==
  /\ rec.exists /\ ~rec.isActive /\ rec.schedule = NoSchedule
  /\ rec.lastExecutionTime # NoTime
  /\ rec.lastExecutionTime < now - RetentionDays * OneDay

(* cleanupCompletedTasks, lines 320-338: deleteMany and its deletedCount *)
cleanupCompletedTasks ==
  /\ tasks' = [i \in TaskIds |-> IF Swept(tasks[i], clock) THEN NoTask ELSE tasks[i]]
  /\ reply' = [op |-> "cleanup", arg |-> "none",
               value |-> Cardinality({i \in TaskIds : Swept(tasks[i], clock)})]
  /\ UNCHANGED <<ledgerVars, tick, clock, lastTick, execCalls, nextId>>

(* a minute passes *)
AdvanceClock(bound) ==
  /\ clock < bound
  /\ clock' = clock + 1
  /\ UNCHANGED <<ledgerVars, tasks, tick, lastTick, execCalls, nextId, reply>>

(***************************************************************************)
(* Specifications                                                          *)
(***************************************************************************)
InitSched ==
  /\ tasks = [i \in TaskIds |-> NoTask]
  /\ tick = [t \in Ticks |-> IdleTick]
  /\ clock = 0 /\ lastTick = 0
  /\ execCalls = [i \in TaskIds |-> 0] /\ nextId = 1
  /\ reply = NoReply

InitCalls ==
  /\ led = [p \in Procs |-> IdleFrame]
  /\ rew = [pc |-> "idle", queue |-> <<>>, records |-> <<>>]
  /\ calls = 0 /\ rewRuns = 0

(* the ledger alone, from an empty database: route handlers calling
   addEnergy, deductEnergy, stakeTokens, unstakeTokens, and the daily
   processStakingRewards *)
(* an account as earlier operations left it: no record, credited by
   rewardEnergy, or staked once *)
NoSeed == [balance |-> 0, staked |-> 0, source |-> "none"]
CreditSeed(b) == [balance |-> b, staked |-> 0, source |-> "task_reward"]
StakeSeed(n) == [balance |-> n * StakeBonusRate, staked |-> n, source |-> "stake_bonus"]

SeedTxs(a, seed) ==
  IF seed = NoSeed THEN <<>>
  ELSE <<Tx(a, "credit", seed.balance, seed.source, seed.balance)>>

Seeded(s1, s2) ==
  /\ energy = [a \in Accounts |->
                LET sd == IF a = "a1" THEN s1 ELSE s2
                IN IF sd = NoSeed THEN NoRecord
                   ELSE [exists |-> TRUE, balance |-> sd.balance, staked |-> sd.staked]]
  /\ txlog = SeedTxs("a1", s1) \o SeedTxs("a2", s2)

InitLedger ==
  /\ \E s1 \in {NoSeed, CreditSeed(BaseCost)}, s2 \in {NoSeed, StakeSeed(100)} :
       Seeded(s1, s2)
  /\ InitCalls /\ InitSched

LedgerStep(p) == LedFind(p) \/ LedSave(p) \/ LedTx(p)

NextLedger ==
  \/ \E c \in Callers, a \in {Owner} :
       \/ \E amt \in AddAmounts : CallAdd(c, a, amt)
       \/ \E amt \in DeductAmounts, src \in DeductSources : CallDeduct(c, a, amt, src)
       \/ \E amt \in StakeAmounts, h \in Holdings : CallStake(c, a, amt, h)
       \/ \E amt \in UnstakeAmounts : CallUnstake(c, a, amt)
  \/ \E p \in Callers \cup {Rewarder} : LedgerStep(p)
  \/ RewStart
  \/ RewNext

SpecLedger == InitLedger /\ [][NextLedger]_vars

(* one route handler at a time changes the owner's account, and balances are
   queried in between and during its calls *)
NextBalance ==
  \/ \E amt \in AddAmounts : CallAdd("c1", Owner, amt)
  \/ \E amt \in DeductAmounts, src \in DeductSources : CallDeduct("c1", Owner, amt, src)
  \/ \E amt \in StakeAmounts, h \in Holdings : CallStake("c1", Owner, amt, h)
  \/ LedgerStep("c1")
  \/ \E a \in Accounts : CallGetBalance(a)

SpecBalance == InitLedger /\ [][NextBalance]_vars

(* the scheduler with the ledger: the owner's account was credited or staked
   before, tasks are created, cron fires ticks every minute, a route handler
   debits the owner and processStakingRewards runs meanwhile *)
(* the tasks createTask stored at minute 0: a one-time task due at once and
   a recurring task, or none *)
OneTime == [schedule |-> NoSchedule, executionTime |-> 0, cost |-> BaseCost]
Recurring == [schedule |-> EveryMinute, executionTime |-> NoTime, cost |-> NoCost]
NoInput == [schedule |-> NoSchedule, executionTime |-> NoTime, cost |-> 0 - 1]

Created(in) ==
  IF in = NoInput THEN NoTask
  ELSE NewTask(Owner, in.schedule, in.executionTime, in.cost, "nextDate")

InitTasks ==
  /\ clock = 0 /\ lastTick = 0
  /\ tick = [t \in Ticks |-> IdleTick]
  /\ execCalls = [i \in TaskIds |-> 0]
  /\ reply = NoReply
  /\ \E in1 \in {OneTime, Recurring}, in2 \in {NoInput, OneTime, Recurring} :
       /\ tasks = [i \in TaskIds |->
                    IF i = 1 THEN Created(in1) ELSE IF i = 2 THEN Created(in2) ELSE NoTask]
       /\ nextId = IF in2 = NoInput THEN 2 ELSE 3

InitScheduler ==
  /\ \E s1 \in {CreditSeed(BaseReward), CreditSeed(4 * BaseReward), StakeSeed(100)} :
       Seeded(s1, NoSeed)
  /\ InitCalls /\ InitTasks

TickStep(t) ==
  \/ TickStart(t)
  \/ TickBalance(t)
  \/ \E ok \in BOOLEAN : TickExec(t, ok)
  \/ \E lib \in {"nextDate", "throw"} : TickSave(t, lib)

(* ticks that may overlap: a firing can find the previous one still running *)
NextScheduler ==
  \/ \E t \in Ticks : TickStep(t)
  \/ \E t \in Ticks : LedgerStep(t)
  \/ AdvanceClock(MaxOverlapClock)

SpecScheduler == InitScheduler /\ [][NextScheduler]_vars

(* every tick ends within its minute (one tick slot), and the daily
   processStakingRewards runs meanwhile *)
NextSequential ==
  \/ TickStep("t1")
  \/ \E p \in {"t1", Rewarder} : LedgerStep(p)
  \/ RewStart
  \/ RewNext
  \/ AdvanceClock(MaxClock)

SpecSequential == InitScheduler /\ [][NextSequential]_vars

(* every tick ends within its minute, and a route handler debits the owner
   meanwhile (energyMiddleware.deductEnergy, source 'trade') *)
NextHandler ==
  \/ TickStep("t1")
  \/ \E amt \in DeductAmounts : CallDeduct("c1", Owner, amt, "trade")
  \/ \E p \in {"t1", "c1"} : LedgerStep(p)
  \/ AdvanceClock(MaxOverlapClock)

SpecHandler == InitScheduler /\ [][NextHandler]_vars

(* every tick ends within its minute, and the DELETE route removes tasks
   meanwhile *)
NextDelete ==
  \/ TickStep("t1")
  \/ LedgerStep("t1")
  \/ \E id \in TaskIds : deleteTask(id)
  \/ AdvanceClock(MaxOverlapClock)

SpecDelete == InitScheduler /\ [][NextDelete]_vars

(* the steps of a tick when the cron library call has the outcome lib *)
TickStepWith(t, lib) ==
  \/ TickStart(t)
  \/ TickBalance(t)
  \/ \E ok \in BOOLEAN : TickExec(t, ok)
  \/ TickSave(t, lib)

(* the outcome of the library call with the node-cron release of
   package.json (^3.0.2): its scheduled task has no nextDate() *)
InstalledCron == "throw"

(* one tick at a time, which may run past its minute, and the owner changing
   schedules meanwhile *)
ScheduleUpdates == {[NoUpdate EXCEPT !.schedule = sch] : sch \in {EveryMinute, EveryOther}}

NextUpdate ==
  \/ TickStepWith("t1", InstalledCron)
  \/ LedgerStep("t1")
  \/ \E id \in TaskIds, upd \in ScheduleUpdates : updateTask(id, upd, InstalledCron)
  \/ AdvanceClock(MaxOverlapClock)

SpecUpdate == InitScheduler /\ [][NextUpdate]_vars

(* one tick at a time, the owner switching tasks off and on, and the
   retention sweep *)
ActiveUpdates == {[NoUpdate EXCEPT !.isActive = b] : b \in {"true", "false"}}

NextReactivate ==
  \/ TickStep("t1")
  \/ LedgerStep("t1")
  \/ \E id \in TaskIds, upd \in ActiveUpdates : updateTask(id, upd, InstalledCron)
  \/ cleanupCompletedTasks
  \/ AdvanceClock(MaxOverlapClock)

SpecReactivate == InitScheduler /\ [][NextReactivate]_vars

(* the owner staking and unstaking while the tick of one minute debits the
   account and the daily rewards credit it *)
NextStaked ==
  \/ TickStep("t1")
  \/ \E amt \in StakeAmounts, h \in Holdings : CallStake("c1", Owner, amt, h)
  \/ \E amt \in UnstakeAmounts : CallUnstake("c1", Owner, amt)
  \/ \E p \in {"t1", "c1", Rewarder} : LedgerStep(p)
  \/ RewStart
  \/ RewNext

(* the owner has staked 100 before and owns one task, due in the minute
   that begins *)
InitStaked ==
  /\ Seeded(StakeSeed(100), NoSeed) /\ InitCalls
  /\ clock = 1 /\ lastTick = 0
  /\ tick = [t \in Ticks |-> IdleTick]
  /\ execCalls = [i \in TaskIds |-> 0]
  /\ reply = NoReply
  /\ \E in1 \in {OneTime, Recurring} :
       tasks = [i \in TaskIds |->
                 IF i = 1 THEN [Created(in1) EXCEPT !.nextExecutionTime = 1] ELSE NoTask]
  /\ nextId = 2

SpecStaked == InitStaked /\ [][NextStaked]_vars

(* one tick per minute with the installed cron library, whose call fails for
   every schedule *)
NextFallback ==
  \/ TickStepWith("t1", InstalledCron)
  \/ LedgerStep("t1")
  \/ AdvanceClock(MaxClock)

SpecFallback == InitScheduler /\ [][NextFallback]_vars

(* ticks that may overlap, with the installed cron library *)
NextOverlap ==
  \/ \E t \in Ticks : TickStepWith(t, InstalledCron)
  \/ \E t \in Ticks : LedgerStep(t)
  \/ AdvanceClock(MaxOverlapClock)

SpecOverlap == InitScheduler /\ [][NextOverlap]_vars

(* the daily rewards over accounts staked before, with a store that may
   reject a read or a write *)
InitRewards ==
  /\ \E s1 \in {NoSeed, StakeSeed(50), StakeSeed(100), StakeSeed(200)},
        s2 \in {StakeSeed(100), StakeSeed(300)} :
       Seeded(s1, s2)
  /\ InitCalls /\ InitSched

NextRewards ==
  \/ RewStart
  \/ RewNext
  \/ LedgerStep(Rewarder)
  \/ LedFail(Rewarder)

SpecRewards == InitRewards /\ [][NextRewards]_vars

(* the owner running tasks by hand, one request at a time *)
NextRun ==
  \/ \E id \in TaskIds : RunTask("t1", id)
  \/ TickBalance("t1")
  \/ \E ok \in BOOLEAN : TickExec("t1", ok)
  \/ \E lib \in {"nextDate", "throw"} : RunSave("t1", lib)
  \/ LedgerStep("t1")
  \/ AdvanceClock(MaxOverlapClock)

SpecRun == InitScheduler /\ [][NextRun]_vars

(* the POST route creating tasks from request bodies of every shape *)
Bodies ==
  [schedule : {NoSchedule, EveryMinute, BadSchedule},
   executionTime : {NoTime, 0, MaxOverlapClock},
   cost : {NoCost, BaseCost}]

InitCreate ==
  /\ \E s1 \in {NoSeed, CreditSeed(BaseCost), CreditSeed(4 * BaseReward)} : Seeded(s1, NoSeed)
  /\ InitCalls /\ InitSched

NextCreate ==
  \/ \E c \in Callers, body \in Bodies, lib \in {"nextDate", "throw"} :
       lib \in CronOutcomes(body.schedule) /\ PostTask(c, body, lib)
  \/ \E c \in Callers : LedgerStep(c)
  \/ AdvanceClock(MaxOverlapClock)

SpecCreate == InitCreate /\ [][NextCreate]_vars

(* ticks whose executor call may never return; the event loop runs every
   continuation that is ready (weak fairness) *)
NextHang ==
  \/ \E t \in Ticks : TickStep(t) \/ TickHang(t)
  \/ \E t \in Ticks : LedgerStep(t)
  \/ AdvanceClock(MaxOverlapClock)

SpecHang == InitScheduler /\ [][NextHang]_vars /\ WF_vars(NextHang)

(* the daily sweep over a store of tasks of every kind: active or not, with
   or without schedule, never attempted or last attempted 32, 31, 30 (to the
   minute) or 29 days before the sweep *)
SweepTime == 32 * OneDay
SweepAges == {NoTime, 0, OneDay, 2 * OneDay, 2 * OneDay + 1, 3 * OneDay}

Stored(schedule, active, last) ==
  [NoTask EXCEPT !.exists = TRUE, !.owner = Owner, !.schedule = schedule,
                 !.isActive = active, !.lastExecutionTime = last,
                 !.lastExecutionStatus = IF last = NoTime THEN "pending" ELSE "failed",
                 !.energyCost = BaseCost]

StoredTasks ==
  {NoTask} \cup {Stored(sch, act, last) :
                   sch \in {NoSchedule, EveryMinute}, act \in BOOLEAN, last \in SweepAges}

InitCleanup ==
  /\ Seeded(NoSeed, NoSeed) /\ InitCalls
  /\ tick = [t \in Ticks |-> IdleTick]
  /\ clock = SweepTime /\ lastTick = SweepTime
  /\ execCalls = [i \in TaskIds |-> 0] /\ nextId = MaxTasks + 1
  /\ reply = NoReply
  /\ tasks \in [TaskIds -> StoredTasks]

NextCleanup == cleanupCompletedTasks

SpecCleanup == InitCleanup /\ [][NextCleanup]_vars

(***************************************************************************)
(* Properties of the ledger                                                *)
(***************************************************************************)
AccountTxs(a) == SelectSeq(txlog, LAMBDA tx : tx.walletAddress = a)

(* credits minus debits of a sequence of transactions *)
RECURSIVE Replay(_)
Replay(log) ==
  IF log = <<>> THEN 0
  ELSE (IF Head(log).type = "credit" THEN Head(log).amount ELSE 0 - Head(log).amount)
       + Replay(Tail(log))

(* no ledger call on the account is between its findOne and its return *)
NoCallInFlight(a) == \A p \in Procs : led[p].acct = a => Finished(led[p])

(* C1: in every reachable state every account's stored balance is at least
   0, also when debits and credits on the account run concurrently *)
C1_BalanceNeverNegative == \A a \in Accounts : energy[a].balance >= 0

(* two concurrent debits loaded the same balance, which covers each but not
   both, and both have written *)
C1_Witness ==
  \E c \in Callers, d \in Callers :
    /\ c # d
    /\ led[c].op = "deduct" /\ led[d].op = "deduct"
    /\ led[c].pc = "tx" /\ led[d].pc = "tx"
    /\ led[c].acct = led[d].acct
    /\ led[c].loaded.balance = led[d].loaded.balance
    /\ led[c].amount + led[d].amount > led[c].loaded.balance

(* C2: in every reachable state, also between an operation's balance write
   and its transaction write, each account's credits minus debits in the
   transaction log equal its stored balance *)
C2_LogReplaysToBalance ==
  \A a \in Accounts : Replay(AccountTxs(a)) = energy[a].balance

(* C4: whenever no operation is in flight on an account that has
   transactions, its newest transaction's balanceAfter is the stored
   balance (each completed operation having appended exactly one
   transaction carrying the balance it stored, a failing one none) *)
C4_NewestTxCarriesBalance ==
  \A a \in Accounts :
    (NoCallInFlight(a) /\ AccountTxs(a) # <<>>)
      => AccountTxs(a)[Len(AccountTxs(a))].balanceAfter = energy[a].balance

SourceCount(a, source) ==
  Len(SelectSeq(AccountTxs(a), LAMBDA tx : tx.source = source))

(* C3: a staking-reward credit and a scheduler-tick debit on the same
   account that both completed, overlapping or not, leave the balance at
   start + reward - cost: neither update is lost *)
C3_RewardAndTickDebitBothApplied ==
  \A a \in Accounts :
    (/\ NoCallInFlight(a)
     /\ SourceCount(a, "staking_reward") = 1
     /\ SourceCount(a, "schedule") = 1)
      => energy[a].balance = Replay(AccountTxs(a))

(***************************************************************************)
(* Properties of the scheduler tick                                        *)
(***************************************************************************)

(* the step of tick t that saves the task it attempted *)
SaveStep(t) ==
  /\ tick[t].pc = "save" \/ (tick[t].pc = "deduct" /\ Finished(led[t]))
  /\ tick'[t] # tick[t]
  /\ tasks[tick[t].cur.id].exists

(* C5: the save that ends a tick's attempt on a task without schedule
   stores isActive = false whatever the outcome (success, executor failure,
   admission denial, failed debit); a denial is stored as failed with the
   result 'Insufficient energy' *)
C5_OneShotDeactivated ==
  [][\A t \in Ticks :
       (SaveStep(t) /\ tick[t].cur.rec.schedule = NoSchedule)
         => LET after == tasks'[tick[t].cur.id]
            IN /\ ~after.isActive
               /\ after.lastExecutionTime = tick[t].now
               /\ Outcome(t) = "denied"
                    => /\ after.lastExecutionStatus = "failed"
                       /\ after.lastExecutionResult = "Insufficient energy"]_vars

(* a one-time task of cost 10 whose owner holds 5: attempted, failed,
   inactive *)
C5_Witness ==
  \E i \in TaskIds :
    /\ tasks[i].exists /\ tasks[i].schedule = NoSchedule
    /\ tasks[i].energyCost = 10 /\ energy[tasks[i].owner].balance = 5
    /\ tasks[i].lastExecutionTime # NoTime
    /\ tasks[i].lastExecutionStatus = "failed"
    /\ tasks[i].lastExecutionResult = "Insufficient energy"
    /\ ~tasks[i].isActive

(* C6: the save that ends a tick's attempt on a recurring task leaves
   isActive as it is, whatever the outcome, and adds exactly one to
   executionCount when the attempt succeeded (none otherwise), so n
   consecutive successful ticks add n *)
C6_RecurringStaysActive ==
  [][\A t \in Ticks :
       (SaveStep(t) /\ tick[t].cur.rec.schedule # NoSchedule)
         => LET before == tasks[tick[t].cur.id]
                after == tasks'[tick[t].cur.id]
            IN /\ after.isActive = before.isActive
               /\ after.executionCount =
                    before.executionCount + (IF Outcome(t) = "success" THEN 1 ELSE 0)]_vars

(* three consecutive ticks succeeded on a recurring task *)
C6_Witness ==
  \E i \in TaskIds :
    /\ tasks[i].exists /\ tasks[i].schedule # NoSchedule
    /\ tasks[i].isActive
    /\ tasks[i].executionCount = 3 /\ execCalls[i] = 3
    /\ tasks[i].lastExecutionStatus = "success"

(* C7: an attempt is denied exactly when the owner's balance is below the
   task's cost; a denied attempt never reaches the executor, leaves every
   balance, stake and the transaction log as they are, and changes only the
   task's status (failed), result ('Insufficient energy'), last execution
   time and next-execution/active fields *)
C7_DenialTouchesOnlyTask ==
  [][\A t \in Ticks :
       /\ (tick[t].pc = "balance" /\ tick'[t] # tick[t])
            => /\ UNCHANGED <<energy, txlog, execCalls, tasks, led>>
               /\ (getBalance(tick[t].cur.rec.owner) < tick[t].cur.rec.energyCost)
                    <=> (tick'[t].pc = "save" /\ tick'[t].outcome = "denied")
               /\ (getBalance(tick[t].cur.rec.owner) >= tick[t].cur.rec.energyCost)
                    <=> tick'[t].pc = "exec"
       /\ (SaveStep(t) /\ Outcome(t) = "denied")
            => LET id == tick[t].cur.id
                   before == tasks[id]
                   after == tasks'[id]
               IN /\ tick[t].pc = "save"
                  /\ UNCHANGED <<energy, txlog, execCalls>>
                  /\ \A j \in TaskIds \ {id} : tasks'[j] = tasks[j]
                  /\ after.lastExecutionStatus = "failed"
                  /\ after.lastExecutionResult = "Insufficient energy"
                  /\ after.lastExecutionTime = tick[t].now
                  /\ after.executionCount = before.executionCount
                  /\ after.owner = before.owner
                  /\ after.schedule = before.schedule
                  /\ after.energyCost = before.energyCost
                  /\ IF tick[t].cur.rec.schedule = NoSchedule
                       THEN after.nextExecutionTime = before.nextExecutionTime
                       ELSE after.isActive = before.isActive]_vars

(* a denied attempt was stored while the account and the log are as they
   were seeded and the executor was never called for the task *)
C7_Witness ==
  \E i \in TaskIds :
    /\ tasks[i].exists
    /\ tasks[i].lastExecutionResult = "Insufficient energy"
    /\ execCalls[i] = 0
    /\ energy[tasks[i].owner].balance = BaseReward
    /\ Len(txlog) = 1

(* C8: an attempt whose executor call returned is followed by exactly one
   debit of the task's cost with source 'schedule' and is stored as success
   with executionCount one above the loaded count, also when other ledger
   operations run between the admission check and the debit *)
C8_SuccessIsDebitedOnce ==
  [][\A t \in Ticks :
       (SaveStep(t) /\ tick[t].pc = "deduct")
         => /\ led[t].pc = "ok"
            /\ tasks'[tick[t].cur.id].lastExecutionStatus = "success"
            /\ tasks'[tick[t].cur.id].executionCount = tick[t].cur.rec.executionCount + 1]_vars

(* C9: an executor call that throws debits nothing and appends no
   transaction; the attempt is stored as failed with the error's message and
   executionCount is left as it is *)
C9_ExecutorFailureNotCharged ==
  [][\A t \in Ticks :
       /\ (tick[t].pc = "exec" /\ tick'[t].pc = "save")
            => /\ tick'[t].outcome = "execfail"
               /\ UNCHANGED <<energy, txlog, tasks, led>>
       /\ (SaveStep(t) /\ Outcome(t) = "execfail")
            => LET before == tasks[tick[t].cur.id]
                   after == tasks'[tick[t].cur.id]
               IN /\ UNCHANGED <<energy, txlog>>
                  /\ led[t] = IdleFrame
                  /\ after.lastExecutionStatus = "failed"
                  /\ after.lastExecutionResult = "executor error"
                  /\ after.executionCount = before.executionCount]_vars

(* the executor threw for a task: stored as failed, never counted, and the
   account and the log are as they were seeded *)
C9_Witness ==
  \E i \in TaskIds :
    /\ tasks[i].exists
    /\ tasks[i].lastExecutionStatus = "failed"
    /\ tasks[i].lastExecutionResult = "executor error"
    /\ tasks[i].executionCount = 0 /\ execCalls[i] = 1
    /\ energy[tasks[i].owner].balance = 4 * BaseReward
    /\ Len(txlog) = 1

(* C10: each time a task becomes due it is attempted at most once, also
   when a tick starts before the previous one finished: no two ticks are
   attempting the same task for the same due time *)
C10_DueTimeAttemptedOnce ==
  \A t \in Ticks, u \in Ticks :
    (t # u /\ tick[t].pc # "idle" /\ tick[u].pc # "idle")
      => ~(/\ tick[t].cur.id = tick[u].cur.id
           /\ tick[t].cur.rec.nextExecutionTime = tick[u].cur.rec.nextExecutionTime)

(* C11: a fault while one due task is processed (executor error, ledger
   error, the store rejecting the task's save) never keeps the tick from the
   remaining due tasks: a tick only ends when every task its query returned
   has been attempted *)
C11_EveryDueTaskAttempted ==
  [][\A t \in Ticks :
       (tick[t].pc # "idle" /\ tick'[t].pc = "idle") => tick[t].queue = <<>>]_vars

(* C12: when the executor call for a due task never returns, the tick
   eventually leaves that call, the task is recorded as a failed execution
   (timeout), and the other due tasks of the tick are eventually processed
   (the tick runs to its end) *)
C12_HangingExecutorTimesOut ==
  \A t \in Ticks, i \in TaskIds :
    (tick[t].pc = "hung" /\ tick[t].cur.id = i)
      ~> (/\ tick[t].pc = "idle"
          /\ tasks[i].exists => tasks[i].lastExecutionStatus = "failed")

(* C13: the sweep deletes exactly the tasks that are inactive, have no
   schedule and were last attempted more than 30 days before it, returns
   their number, and leaves every other task as it is *)
C13_SweepDeletesExactlyExpired ==
  [][(reply'.op = "cleanup" /\ <<tasks, reply>>' # <<tasks, reply>>)
       => LET expired(i) ==
                /\ tasks[i].exists /\ ~tasks[i].isActive
                /\ tasks[i].schedule = NoSchedule
                /\ tasks[i].lastExecutionTime # NoTime
                /\ clock - tasks[i].lastExecutionTime > 30 * 1440
          IN /\ \A i \in TaskIds :
                  tasks'[i] = IF expired(i) THEN NoTask ELSE tasks[i]
             /\ reply'.value = Cardinality({i \in TaskIds : expired(i)})]_vars

(* a sweep deleted one task and left an inactive one-time task that was
   last attempted 29 days before *)
C13_Witness ==
  /\ reply.op = "cleanup" /\ reply.value = 1
  /\ \E i \in TaskIds, j \in TaskIds :
       /\ ~tasks[i].exists
       /\ tasks[j].exists /\ ~tasks[j].isActive /\ tasks[j].schedule = NoSchedule
       /\ clock - tasks[j].lastExecutionTime = 29 * 1440

(* C14: getBalance returns the stored balance of an existing account and 0
   for an account without record, and changes nothing: no record is
   created, no transaction appended *)
C14_GetBalanceReadsOnly ==
  [][\A a \in Accounts :
       (reply'.op = "getBalance" /\ reply'.arg = a /\ reply' # reply)
         => /\ reply'.value = IF energy[a].exists THEN energy[a].balance ELSE 0
            /\ UNCHANGED <<energy, txlog, led>>]_vars

(* the balance of an account without record was asked: 0, and there is
   still no record and no transaction of it *)
C14_Witness ==
  /\ reply.op = "getBalance" /\ reply.value = 0
  /\ ~energy[reply.arg].exists
  /\ AccountTxs(reply.arg) = <<>>

(* C15: a credit with amount <= 0 fails and leaves the ledger unchanged (no
   record created, no balance changed, no transaction appended), so every
   recorded transaction has an amount > 0 *)
C15_NonPositiveCreditRejected ==
  [][/\ \A p \in Procs :
          (/\ led[p].op = "add" /\ ~Finished(led[p]) /\ led[p].amount <= 0
           /\ led'[p] # led[p])
            => (led'[p].pc # "ok" /\ UNCHANGED <<energy, txlog>>)
     /\ \A i \in 1..Len(txlog') : txlog'[i].amount > 0]_vars

(* the step process p takes in its ledger call op *)
CallStep(p, op) == led[p].op = op /\ ~Finished(led[p]) /\ led'[p] # led[p]

(* C16: a debit on an account without record, or with balance < amount,
   fails and leaves the ledger unchanged (no record created, balance and
   staked as they are, no transaction); a debit with balance >= amount
   lowers the balance it read by exactly amount, leaves staked alone and
   appends one debit transaction of that amount *)
C16_DebitAllOrNothing ==
  [][\A p \in Procs :
       LET f == led[p]
           a == f.acct
       IN CallStep(p, "deduct") =>
            /\ (f.pc = "find" /\ (~energy[a].exists \/ energy[a].balance < f.amount))
                 => (led'[p].pc = "err" /\ UNCHANGED <<energy, txlog>>)
            /\ (f.pc = "find" /\ energy[a].exists /\ energy[a].balance >= f.amount)
                 => (led'[p].pc = "save" /\ UNCHANGED <<energy, txlog>>)
            /\ f.pc = "save"
                 => /\ f.loaded.balance >= f.amount
                    /\ energy' = [energy EXCEPT ![a].balance = f.loaded.balance - f.amount]
                    /\ UNCHANGED txlog
            /\ (f.pc = "tx" /\ f.source \in SourceEnum)
                 => /\ txlog' = Append(txlog, [walletAddress |-> a, type |-> "debit",
                                               amount |-> f.amount, source |-> f.source,
                                               balanceAfter |-> f.loaded.balance - f.amount])
                    /\ led'[p].pc = "ok"
                    /\ UNCHANGED energy]_vars

(* of two debits of 10 against a balance of 10 one went through (balance 0,
   one debit transaction) and the later one failed *)
C16_Witness ==
  \E c \in Callers, d \in Callers :
    /\ led[c].op = "deduct" /\ led[c].pc = "ok"
    /\ led[d].op = "deduct" /\ led[d].pc = "err"
    /\ energy[Owner].exists /\ energy[Owner].balance = 0
    /\ Len(AccountTxs(Owner)) = 2
    /\ AccountTxs(Owner)[2].type = "debit" /\ AccountTxs(Owner)[2].balanceAfter = 0

(* C17: a successful stake of amount a, creating the record when absent,
   raises staked by exactly a and the balance by exactly a * 10 (over what
   the call read), and appends exactly one credit transaction with source
   'stake_bonus', amount a * 10 and balanceAfter the balance it stored *)
C17_StakeCreditsBonus ==
  [][\A p \in Procs :
       LET f == led[p]
           a == f.acct
       IN CallStep(p, "stake") =>
            /\ f.pc = "find"
                 => /\ led'[p].pc = "save"
                    /\ led'[p].loaded.balance = energy[a].balance
                    /\ led'[p].loaded.staked = energy[a].staked
                    /\ UNCHANGED <<energy, txlog>>
            /\ f.pc = "save"
                 => /\ UNCHANGED txlog
                    /\ \/ led'[p].pc = "err" /\ UNCHANGED energy
                       \/ /\ led'[p].pc = "tx"
                          /\ energy' = [energy EXCEPT ![a] =
                                          [exists |-> TRUE,
                                           balance |-> f.loaded.balance + f.amount * 10,
                                           staked |-> f.loaded.staked + f.amount]]
            /\ f.pc = "tx"
                 => /\ txlog' = Append(txlog, [walletAddress |-> a, type |-> "credit",
                                               amount |-> f.amount * 10,
                                               source |-> "stake_bonus",
                                               balanceAfter |-> f.loaded.balance + f.amount * 10])
                    /\ led'[p].pc = "ok"
                    /\ UNCHANGED energy]_vars

(* staking 100 on an account without record returned: staked 100, balance
   1000, one stake_bonus credit of 1000 *)
C17_Witness ==
  \E c \in Callers :
    /\ led[c].op = "stake" /\ led[c].pc = "ok"
    /\ energy[Owner] = [exists |-> TRUE, balance |-> 1000, staked |-> 100]
    /\ AccountTxs(Owner) = <<[walletAddress |-> Owner, type |-> "credit", amount |-> 1000,
                              source |-> "stake_bonus", balanceAfter |-> 1000]>>

(* C18: unstaking more than is staked, or on an account without record,
   fails and leaves balance, staked and the transaction log unchanged; a
   successful unstake lowers staked by exactly the amount (of what the call
   read) and changes neither balance nor the log; staked is never negative *)
C18_UnstakeChecked ==
  /\ [](\A a \in Accounts : energy[a].staked >= 0)
  /\ [][\A p \in Procs :
          LET f == led[p]
              a == f.acct
          IN CallStep(p, "unstake") =>
               /\ UNCHANGED txlog
               /\ (f.pc = "find" /\ (~energy[a].exists \/ energy[a].staked < f.amount))
                    => (led'[p].pc = "err" /\ UNCHANGED energy)
               /\ (f.pc = "find" /\ energy[a].exists /\ energy[a].staked >= f.amount)
                    => (led'[p].pc = "save" /\ UNCHANGED energy)
               /\ f.pc = "save"
                    => /\ led'[p].pc = "ok"
                       /\ f.loaded.staked >= f.amount
                       /\ energy' = [energy EXCEPT ![a].staked = f.loaded.staked - f.amount]]_vars

(* unstaking 150 against a stake of 100 failed and left staked 100, balance
   1000 and the one transaction *)
C18_Witness ==
  \E c \in Callers :
    /\ led[c].op = "unstake" /\ led[c].pc = "err"
    /\ energy[Owner] = [exists |-> TRUE, balance |-> 1000, staked |-> 100]
    /\ Len(AccountTxs(Owner)) = 1

(* C19: stakeTokens goes on to the ledger only when the token-balance check
   reported a holding >= amount; with a smaller holding the call fails and
   balance, staked, the transaction log and the set of records are unchanged *)
C19_StakeNeedsHolding ==
  [][\A c \in Callers :
       /\ (Finished(led[c]) /\ led'[c] # led[c] /\ led'[c].op = "stake")
            => /\ UNCHANGED <<energy, txlog>>
               /\ led'[c].holding < led'[c].amount => led'[c].pc = "err"
               /\ led'[c].holding >= led'[c].amount => led'[c].pc = "find"
       /\ CallStep(c, "stake") => led[c].holding >= led[c].amount]_vars

(* a stake with a reported holding of 0 failed: no record, no transaction *)
C19_Witness ==
  \E c \in Callers :
    /\ led[c].op = "stake" /\ led[c].pc = "err"
    /\ led[c].holding < led[c].amount
    /\ ~energy[led[c].acct].exists
    /\ AccountTxs(led[c].acct) = <<>>

(* the record of account a in the result of the rewards query, if any *)
QueriedReward(a) ==
  IF \E i \in DOMAIN rew.records : rew.records[i].walletAddress = a
    THEN RewardAmount((CHOOSE r \in {rew.records[i] : i \in DOMAIN rew.records} :
                         r.walletAddress = a).staked)
    ELSE 0

(* C20: after one invocation of processStakingRewards every account the
   query found with floor(staked * rate) > 0 has exactly one 'staking_reward'
   credit of that amount, and every other account has none; each step of the
   invocation changes only the account being credited, adding the reward to
   the balance it read and appending that one transaction *)
C20_RewardsCreditOncePerStaker ==
  /\ [](\A a \in Accounts :
          LET got == SelectSeq(AccountTxs(a), LAMBDA tx : tx.source = "staking_reward")
          IN /\ (rewRuns = 1 /\ rew.pc = "idle")
                  => IF QueriedReward(a) > 0
                       THEN /\ Len(got) = 1
                            /\ got[1].type = "credit"
                            /\ got[1].amount = QueriedReward(a)
                       ELSE got = <<>>
             /\ Len(got) <= 1)
  /\ [][/\ rew' # rew => UNCHANGED <<energy, txlog>>
        /\ (led'[Rewarder] # led[Rewarder] /\ ~Finished(led[Rewarder]))
             => LET f == led[Rewarder]
                IN /\ f.amount > 0 /\ f.amount = QueriedReward(f.acct)
                   /\ \A a \in Accounts \ {f.acct} : energy'[a] = energy[a]
                   /\ energy'[f.acct] # energy[f.acct]
                        => energy'[f.acct] =
                             [energy[f.acct] EXCEPT !.balance = f.loaded.balance + f.amount]
                   /\ txlog' # txlog
                        => txlog' = Append(txlog, Tx(f.acct, "credit", f.amount,
                                                     "staking_reward", f.doc.balance))]_vars

(* the invocation is over: a2 (staked 100) got its credit of 1, a1 (staked
   50, reward 0) has its stake bonus and nothing else *)
C20_Witness ==
  /\ rewRuns = 1 /\ rew.pc = "idle"
  /\ Len(rew.records) = 2
  /\ energy["a2"] = [exists |-> TRUE, balance |-> 1001, staked |-> 100]
  /\ SourceCount("a2", "staking_reward") = 1
  /\ energy["a1"].exists /\ energy["a1"].staked = 50
  /\ SourceCount("a1", "staking_reward") = 0

(* C21: every task that enters the store was created from a request carrying
   exactly one of schedule and executionTime, and is stored as that kind; a
   request carrying both or neither is rejected and leaves the store as it
   was *)
C21_CreatedWithExactlyOne ==
  [][/\ \A i \in TaskIds :
          (~tasks[i].exists /\ tasks'[i].exists)
            => /\ reply'.op = "createTask" /\ reply'.value = i
               /\ reply'.arg \in {"schedule", "executionTime"}
               /\ (reply'.arg = "schedule") = (tasks'[i].schedule # NoSchedule)
     /\ (reply' # reply /\ reply'.arg \in {"both", "neither"})
          => (reply'.op = "rejected" /\ UNCHANGED <<tasks, nextId>>)]_vars

(* a one-shot task was created and a later request with both fields was
   refused *)
C21_Witness ==
  /\ reply = [op |-> "rejected", arg |-> "both", value |-> 400]
  /\ tasks[1].exists /\ tasks[1].schedule = NoSchedule
  /\ ~tasks[2].exists

(* C22: after updateTask changed a task's schedule, the task stores the new
   schedule and the nextExecutionTime computed from it, until that time is
   reached, whatever a tick that loaded the task earlier saves meanwhile;
   updateTask on a missing id answers 'Task not found' and changes nothing *)
C22_UpdateDecidesNextRun ==
  /\ []((/\ reply.op = "updateTask" /\ reply.arg # NoSchedule
         /\ tasks[reply.id].exists /\ clock < reply.value)
          => /\ tasks[reply.id].schedule = reply.arg
             /\ tasks[reply.id].nextExecutionTime = reply.value)
  /\ [][(reply' # reply /\ reply'.op = "error")
          => (reply'.arg = "Task not found" /\ UNCHANGED tasks)]_vars

(* the successful runs stored on the tasks 1..n *)
RECURSIVE SuccessCount(_)
SuccessCount(n) == IF n = 0 THEN 0 ELSE tasks[n].executionCount + SuccessCount(n - 1)

(* C23: a run-now request takes the task through admission, executor, debit,
   status and reschedule whatever its nextExecutionTime is, and the owner is
   debited exactly once per successful run: when no request is in progress,
   the owner has as many 'schedule' debits as runs were stored as success *)
C23_RunNowDebitsOnce ==
  (tick["t1"].pc = "idle" /\ Finished(led["t1"]))
    => SourceCount(Owner, "schedule") = SuccessCount(MaxTasks)

(* C24: isActive = false is terminal. A task without schedule is inactive
   after its first attempt, so whatever ticks, updateTask calls and sweeps
   follow, the executor is invoked for it at most once in its lifetime *)
C24_InactiveIsTerminal ==
  \A i \in TaskIds :
    (tasks[i].exists /\ tasks[i].schedule = NoSchedule) => execCalls[i] <= 1

(* C25: the stored staked amount of an account changes only in the save of a
   stakeTokens call (to more than the call read) or of an unstakeTokens call
   (to less than the call read); every step of addEnergy, deductEnergy,
   processStakingRewards and of a scheduler tick leaves every account's
   staked as it is, also while a stake or unstake on the account is in
   flight *)
C25_StakedOnlyByStakeAndUnstake ==
  [][\A a \in Accounts :
       /\ energy'[a].staked # energy[a].staked
            => \E p \in Procs :
                 /\ led[p].acct = a /\ led[p].pc = "save" /\ led'[p] # led[p]
                 /\ \/ /\ led[p].op = "stake"
                       /\ energy'[a].staked = led[p].loaded.staked + led[p].amount
                       /\ led[p].amount > 0
                    \/ /\ led[p].op = "unstake"
                       /\ energy'[a].staked = led[p].loaded.staked - led[p].amount
                       /\ led[p].amount > 0
       /\ (\E p \in Procs : led[p].op \in {"add", "deduct"} /\ led'[p] # led[p]
                            /\ ~Finished(led[p]))
            => energy'[a].staked = energy[a].staked
       /\ (tick' # tick \/ rew' # rew) => energy'[a].staked = energy[a].staked]_vars

(* the tick's debit was saved while a stake of the owner was between its
   findOne and its save, and the stake is stored as the debit found it *)
C25_Witness ==
  /\ led["t1"].op = "deduct" /\ led["t1"].pc = "tx"
  /\ led["c1"].op = "stake" /\ led["c1"].pc = "save"
  /\ energy[Owner].balance = led["t1"].doc.balance
  /\ energy[Owner].staked = 100
  /\ led["c1"].doc.staked = 200

(* C26: when the computation of the next run fails while a recurring task is
   rescheduled, the task is saved with nextExecutionTime = the tick's now +
   1 day and still active, with the status and result the admission check and
   the execution decided, and the tick goes on with the tasks it has left *)
C26_ScheduleErrorFallsBack ==
  [][\A t \in Ticks :
       (SaveStep(t) /\ tick[t].cur.rec.schedule # NoSchedule)
         => LET after == tasks'[tick[t].cur.id]
                out == Outcome(t)
            IN /\ after.nextExecutionTime = tick[t].now + OneDay
               /\ after.isActive
               /\ after.lastExecutionStatus = (IF out = "success" THEN "success" ELSE "failed")
               /\ after.lastExecutionResult =
                    (CASE out = "success" -> "result"
                       [] out = "denied" -> "Insufficient energy"
                       [] out = "execfail" -> "executor error"
                       [] OTHER -> "Insufficient energy balance")
               /\ tick'[t] = Advance(tick[t])]_vars

(* a recurring task ran at minute 1, is due again a day later, and the tick
   went on to the one-time task behind it *)
C26_Witness ==
  /\ tasks[1].schedule = EveryMinute /\ tasks[1].isActive
  /\ tasks[1].lastExecutionStatus = "success" /\ tasks[1].lastExecutionTime = 1
  /\ tasks[1].nextExecutionTime = 1 + OneDay
  /\ tick["t1"].pc = "balance" /\ tick["t1"].cur.id = 2

(* C27: every reschedule of a recurring task by a tick with time now stores
   a nextExecutionTime strictly after now, and never one before the
   nextExecutionTime that was stored until then *)
C27_NextRunMovesForward ==
  [][\A t \in Ticks :
       (SaveStep(t) /\ tick[t].cur.rec.schedule # NoSchedule)
         => /\ tasks'[tick[t].cur.id].nextExecutionTime > tick[t].now
            /\ tasks'[tick[t].cur.id].nextExecutionTime
                 >= tasks[tick[t].cur.id].nextExecutionTime]_vars

(* C28: executionCount never decreases and counts the attempts stored as
   success: the save of a successful attempt raises the stored count by
   exactly one, also when another attempt of the same task overlaps it, and
   the save of a denied or failed attempt leaves it as it is *)
C28_CountsEverySuccess ==
  [][/\ \A i \in TaskIds :
          (tasks[i].exists /\ tasks'[i].exists)
            => tasks'[i].executionCount >= tasks[i].executionCount
     /\ \A t \in Ticks :
          SaveStep(t)
            => tasks'[tick[t].cur.id].executionCount =
                 tasks[tick[t].cur.id].executionCount
                   + (IF Outcome(t) = "success" THEN 1 ELSE 0)]_vars

(* C29: a deleted task never comes back into the store and no tick that
   starts later loads it; when the task is deleted while a tick is attempting
   it, the tick's save of it stores nothing and the tick goes on with the due
   tasks it has left *)
C29_DeleteIsFinal ==
  [][/\ \A i \in TaskIds : ~tasks[i].exists => ~tasks'[i].exists
     /\ \A t \in Ticks :
          /\ (tick[t].pc = "idle" /\ tick'[t].pc # "idle")
               => /\ tasks[tick'[t].cur.id].exists
                  /\ \A k \in DOMAIN tick'[t].queue : tasks[tick'[t].queue[k].id].exists
          /\ (/\ tick[t].pc = "save" \/ (tick[t].pc = "deduct" /\ Finished(led[t]))
              /\ tick'[t] # tick[t]
              /\ ~tasks[tick[t].cur.id].exists)
               => tick'[t] = Advance(tick[t])]_vars

(* C30: when crediting one staking account fails, the invocation of
   processStakingRewards goes on with the accounts it has left: after a
   failed credit the loop turns to the next record of its query *)
C30_RewardsSurviveLedgerFailure ==
  [][(rew.pc = "run" /\ led[Rewarder].pc = "err" /\ rew' # rew /\ Tail(rew.queue) # <<>>)
       => /\ rew'.pc = "run" /\ rew'.queue = Tail(rew.queue)
          /\ led'[Rewarder] = RewardFrame(Head(Tail(rew.queue)))]_vars

====
